---- MODULE Spec2Model ----
(***************************************************************************)
(* KineticalCalculator (src/src/ChemCalc/Kinetic.py): explicit Euler       *)
(* integration of a reaction network, with checkpoints, a policy for       *)
(* concentrations that would fall to zero or below, a bounded run          *)
(* (calculate) and a timer driven run (calculate_responsively).            *)
(*                                                                         *)
(* Numbers.  Python numbers are modelled as exact rationals <<n, d>> with  *)
(* d > 0 and gcd(n, d) = 1.  Step sizes, durations and checkpoint times    *)
(* are integers, as the inputs drawn here are.  Compound indices are       *)
(* 1-based here and 0-based in the source.                                 *)
(*                                                                         *)
(* List objects.  self.concentrations is a Python list that calculate      *)
(* mutates in place and whose reference it returns in the final pair, so   *)
(* lists live in a heap and are named by their index in it.                *)
(***************************************************************************)
EXTENDS Integers, Sequences, FiniteSets, TLC

\* ---------------------------------------------------------------- bounds
\* Largest duration passed to calculate, and largest checkpoint time.
MaxTime == 2
\* Largest concentration an Enviroment hands over (the smallest is -1).
MaxConc == 1
\* Number of timer frames explored in one calculate_responsively call.
MaxFrames == 3
\* Number of operations (fit, calculate, calculate_responsively) of SpecRerun.
MaxOps == 3

\* ------------------------------------------------------------- arithmetic
Abs(x) == IF x < 0 THEN -x ELSE x

RECURSIVE GCD(_, _)
GCD(a, b) == IF b = 0 THEN a ELSE GCD(b, a % b)

\* The rational n/d in lowest terms with a positive denominator (d # 0).
Rat(n, d) ==
    LET g == GCD(Abs(n), Abs(d))
        s == IF d < 0 THEN -1 ELSE 1
    IN  <<(s * n) \div g, (s * d) \div g>>

R(n) == <<n, 1>>
Zero == R(0)
One == R(1)
RAdd(a, b) == Rat(a[1] * b[2] + b[1] * a[2], a[2] * b[2])
RSub(a, b) == Rat(a[1] * b[2] - b[1] * a[2], a[2] * b[2])
RMul(a, b) == Rat(a[1] * b[1], a[2] * b[2])
RPos(a) == a[1] > 0
RNonNeg(a) == a[1] >= 0

\* base ** e for an integer e, where base # 0 or e >= 0.
RECURSIVE RPow(_, _)
RPow(base, e) ==
    IF e = 0 THEN One
    ELSE IF e > 0 THEN RMul(base, RPow(base, e - 1))
    ELSE LET p == RPow(base, -e) IN Rat(p[2], p[1])

\* Python's base ** e: 0 ** negative raises ZeroDivisionError.
Pow(base, e) ==
    IF base = Zero /\ e < 0
    THEN [err |-> TRUE, val |-> Zero]
    ELSE [err |-> FALSE, val |-> RPow(base, e)]

\* int(x) of the quotient n/d, d > 0: truncation towards zero.
IntTrunc(n, d) == IF n >= 0 THEN n \div d ELSE -((-n) \div d)

\* ------------------------------------------------------------ Enviroment
\* What fit reads of an Enviroment: one entry per reaction in each table,
\* each entry a pair <<forward side, backward side>>.
MakeEnviroment(k, idx, sto, dep, conc) ==
    [rate_constants |-> k,
     reaction_by_index |-> idx,
     stoichiometric_coefficient_by_reaction |-> sto,
     rate_dependency_by_reaction |-> dep,
     compounds_concentration |-> conc]

\* The value of self.enviroment's tables before fit (the attributes do not exist).
NoEnviroment == MakeEnviroment(<<>>, <<>>, <<>>, <<>>, <<>>)

\* An Enviroment with no reaction.
NetNone(conc) == MakeEnviroment(<<>>, <<>>, <<>>, <<>>, conc)

\* A -> 2 B, irreversible, rate 1/2 [A].
NetAB(conc) ==
    MakeEnviroment(<< <<Rat(1, 2), Zero>> >>,
                   << << <<1>>, <<2>> >> >>,
                   << << <<1>>, <<2>> >> >>,
                   << << <<1>>, <<1>> >> >>,
                   conc)

\* Two reactions.  The first has A and B on both sides and a negative order in
\* A on both: forward 1 [A]^-1 [B] over (A, B), backward 2 [B] [A]^-1 over
\* (B, A); its net effect is on B.  The second is A -> nothing, rate 1 [A].
NetGuard(conc) ==
    MakeEnviroment(<< <<One, R(2)>>, <<One, Zero>> >>,
                   << << <<1, 2>>, <<2, 1>> >>, << <<1>>, <<>> >> >>,
                   << << <<1, 1>>, <<2, 1>> >>, << <<1>>, <<>> >> >>,
                   << << <<-1, 1>>, <<1, -1>> >>, << <<1>>, <<>> >> >>,
                   conc)

ConcValues == -1 .. MaxConc
ConcVectors == {<<a, b>> : a \in ConcValues, b \in ConcValues}
Enviroments ==
    {NetNone(c) : c \in ConcVectors} \cup {NetAB(c) : c \in ConcVectors}
        \cup {NetGuard(c) : c \in ConcVectors}

StepSizes == {1, 2}
Policies == {"SetToZero", "DoNotChange", "GoNegetive"}
PolicyArgs == Policies \cup {"Bogus"}
Durations == -1 .. MaxTime
CheckpointValues == -1 .. MaxTime
CheckpointLists ==
    {<<>>} \cup {<<a>> : a \in CheckpointValues}
        \cup {<<a, b>> : a \in CheckpointValues, b \in CheckpointValues}
ShortCheckpointLists == {<<>>} \cup {<<a>> : a \in CheckpointValues}

VARIABLES
    accuracy,                  \* self.accuracy
    fitted,                    \* self.fitted
    enviroment,                \* the tables fit cached from the Enviroment
    heap,                      \* the list objects fit created, by identity
    concRef,                   \* self.concentrations: index in heap, 0 before fit
    pc,                        \* "idle" | "calc_loop" | "resp_input"
    last,                      \* the most recent operation
    err,                       \* the exception it raised, or "none"
    time,                      \* argument time of calculate
    checkpoint_time,           \* argument checkpoint_time
    concentration_below_zero,  \* argument concentration_below_zero
    t,                         \* local t of calculate / of the last animate call
    i,                         \* ticks applied so far by the current call
    iterations,                \* length of range(int(time/self.accuracy+1))
    checkpoints,               \* local list checkpoints
    ani,                       \* the FuncAnimation: "none", or the last of "running" (created, resume()) and "paused" (pause())
    frame,                     \* the itertools.count() named time in calculate_responsively
    results,                   \* the lists returned so far, held by the caller
    ops,                       \* number of operations called so far
    conc0,                     \* history: self.concentrations when the call started
    trace                      \* history: self.concentrations after each tick of the call

vars ==
    <<accuracy, fitted, enviroment, heap, concRef, pc, last, err, time,
      checkpoint_time, concentration_below_zero, t, i, iterations, checkpoints,
      ani, frame, results, ops, conc0, trace>>

\* self.concentrations, by value.
Conc == IF concRef = 0 THEN <<>> ELSE heap[concRef]

number_of_reactions == Len(enviroment.rate_constants)

\* ------------------------------------------- calculate_concentration_change
\* ZeroGuard with the exponent test off by one.
ZeroGuardStrict(c, e) == c = Zero /\ e < -1

\* The test of lines 105 and 113 that replaces the factor by rf = 0 / rb = 0.
ZeroGuard(c, e) == c = Zero /\ e < 0

\* The loop of lines 104-109 (and 112-117) from position counter on: r is rf
\* (rb) so far, or the ZeroDivisionError a power raised.
RECURSIVE ExtentFrom(_, _, _, _, _)
ExtentFrom(r, counter, compounds, dependency, conc) ==
    IF r.err \/ counter > Len(compounds) THEN r
    ELSE LET c == conc[compounds[counter]]
             e == dependency[counter]
         IN  IF ~ZeroGuard(c, e)
             THEN LET p == Pow(c, e)
                  IN  ExtentFrom([err |-> p.err,
                                  val |-> IF p.err THEN Zero ELSE RMul(r.val, p.val)],
                                 counter + 1, compounds, dependency, conc)
             ELSE ExtentFrom([err |-> FALSE, val |-> Zero],
                             counter + 1, compounds, dependency, conc)

\* rf (side = 1) or rb (side = 2) of reaction rxn_index for the vector conc.
Extent(rxn_index, side, conc) ==
    ExtentFrom([err |-> FALSE,
                val |-> RMul(R(accuracy), enviroment.rate_constants[rxn_index][side])],
               1,
               enviroment.reaction_by_index[rxn_index][side],
               enviroment.rate_dependency_by_reaction[rxn_index][side],
               conc)

\* The loops of lines 119-121 and 123-125: change[compound] += amount * coefficient.
RECURSIVE Accumulate(_, _, _, _, _)
Accumulate(change, compounds, coefficients, amount, counter) ==
    IF counter > Len(compounds) THEN change
    ELSE Accumulate(
             [change EXCEPT ![compounds[counter]] =
                 RAdd(@, RMul(amount, R(coefficients[counter])))],
             compounds, coefficients, amount, counter + 1)

\* The loop over the reactions from rxn_index on (lines 101-125).
RECURSIVE ChangeFrom(_, _, _)
ChangeFrom(change, rxn_index, conc) ==
    IF rxn_index > number_of_reactions THEN [err |-> FALSE, val |-> change]
    ELSE LET rf == Extent(rxn_index, 1, conc)
             rb == Extent(rxn_index, 2, conc)
             idx == enviroment.reaction_by_index[rxn_index]
             sto == enviroment.stoichiometric_coefficient_by_reaction[rxn_index]
         IN  IF rf.err \/ rb.err THEN [err |-> TRUE, val |-> change]
             ELSE ChangeFrom(
                      Accumulate(
                          Accumulate(change, idx[1], sto[1], RSub(rb.val, rf.val), 1),
                          idx[2], sto[2], RSub(rf.val, rb.val), 1),
                      rxn_index + 1, conc)

calculate_concentration_change(conc) ==
    ChangeFrom([j \in 1 .. Len(conc) |-> Zero], 1, conc)

\* ------------------------------------------------------ the update of a tick
\* NewEntry with "DoNotChange" clamping like "SetToZero".
NewEntryFreezeClamps(old, concentration, policy) ==
    IF RPos(concentration) THEN [err |-> FALSE, val |-> concentration]
    ELSE IF policy = "DoNotChange" THEN [err |-> FALSE, val |-> Zero]
    ELSE IF policy = "GoNegetive" THEN [err |-> FALSE, val |-> concentration]
    ELSE IF policy = "SetToZero" THEN [err |-> FALSE, val |-> Zero]
    ELSE [err |-> TRUE, val |-> old]

\* NewEntry testing the old value instead of the candidate.
NewEntryTestsOld(old, concentration, policy) ==
    IF RPos(old) THEN [err |-> FALSE, val |-> concentration]
    ELSE IF policy = "DoNotChange" THEN [err |-> FALSE, val |-> old]
    ELSE IF policy = "GoNegetive" THEN [err |-> FALSE, val |-> concentration]
    ELSE IF policy = "SetToZero" THEN [err |-> FALSE, val |-> Zero]
    ELSE [err |-> TRUE, val |-> old]

\* NewEntry with "SetToZero" storing the candidate.
NewEntryNoClamp(old, concentration, policy) ==
    IF RPos(concentration) THEN [err |-> FALSE, val |-> concentration]
    ELSE IF policy = "DoNotChange" THEN [err |-> FALSE, val |-> old]
    ELSE IF policy = "GoNegetive" THEN [err |-> FALSE, val |-> concentration]
    ELSE IF policy = "SetToZero" THEN [err |-> FALSE, val |-> concentration]
    ELSE [err |-> TRUE, val |-> old]

\* Lines 132-142 for one compound: old is self.concentrations[j], concentration
\* the candidate; err is the ValueError of line 141.
NewEntry(old, concentration, policy) ==
    IF RPos(concentration) THEN [err |-> FALSE, val |-> concentration]
    ELSE IF policy = "DoNotChange" THEN [err |-> FALSE, val |-> old]
    ELSE IF policy = "GoNegetive" THEN [err |-> FALSE, val |-> concentration]
    ELSE IF policy = "SetToZero" THEN [err |-> FALSE, val |-> Zero]
    ELSE [err |-> TRUE, val |-> old]

\* The loop of lines 130-142 from compound j on; a ValueError leaves the
\* compounds before j updated.
RECURSIVE UpdateFrom(_, _, _, _)
UpdateFrom(conc, delta, j, policy) ==
    IF j > Len(delta) THEN [err |-> FALSE, val |-> conc]
    ELSE LET e == NewEntry(conc[j], RAdd(conc[j], delta[j]), policy)
         IN  IF e.err THEN [err |-> TRUE, val |-> conc]
             ELSE UpdateFrom([conc EXCEPT ![j] = e.val], delta, j + 1, policy)

\* Lines 129-142 (237-249): the vector after one tick and the exception raised.
Step(conc, policy) ==
    LET d == calculate_concentration_change(conc)
    IN  IF d.err THEN [err |-> "ZeroDivisionError", val |-> conc]
        ELSE LET u == UpdateFrom(conc, d.val, 1, policy)
             IN  [err |-> IF u.err THEN "ValueError" ELSE "none", val |-> u.val]

\* ------------------------------------------------------------- checkpoints
\* An element of the returned list.  tag is "time" for the header, "num" for a
\* pair whose first entry is a number (time) and "end" for the sentinel of
\* calculate_responsively.  The second entry is either a list of its own (snap)
\* or the list object ref of the heap.
Header == [tag |-> "time", time |-> 0, ref |-> 0, snap |-> <<>>]
CheckpointPair(c, conc) == [tag |-> "num", time |-> c, ref |-> 0, snap |-> conc]
FinalPair(tm, ref) == [tag |-> "num", time |-> tm, ref |-> ref, snap |-> <<>>]
EndPair(ref) == [tag |-> "end", time |-> 0, ref |-> ref, snap |-> <<>>]

\* The list an element holds, as the caller reads it now.
Snapshot(e) == IF e.ref # 0 THEN heap[e.ref] ELSE e.snap

\* Brackets with the interval closed on the right.
BracketsClosed(tick_t, checkpoint_t) ==
    tick_t <= checkpoint_t /\ checkpoint_t <= tick_t + accuracy

\* Brackets with the interval open on the left and closed on the right.
BracketsOpenLeft(tick_t, checkpoint_t) ==
    tick_t < checkpoint_t /\ checkpoint_t <= tick_t + accuracy

\* The test of line 148 (255).
Brackets(tick_t, checkpoint_t) ==
    tick_t <= checkpoint_t /\ checkpoint_t < tick_t + accuracy

\* RecordFrom inserting each pair right after the header instead of appending it.
RECURSIVE RecordFromPrepend(_, _, _, _, _)
RecordFromPrepend(cps, requested, k, tick_t, conc) ==
    IF k > Len(requested) THEN cps
    ELSE RecordFromPrepend(
             IF tick_t <= requested[k] /\ requested[k] < tick_t + accuracy
             THEN <<cps[1], CheckpointPair(requested[k], conc)>> \o Tail(cps)
             ELSE cps,
             requested, k + 1, tick_t, conc)

\* The loop of lines 146-149 (253-256) from position k of checkpoint_time on.
RECURSIVE RecordFrom(_, _, _, _, _)
RecordFrom(cps, requested, k, tick_t, conc) ==
    IF k > Len(requested) THEN cps
    ELSE RecordFrom(
             IF Brackets(tick_t, requested[k])
             THEN Append(cps, CheckpointPair(requested[k], conc))
             ELSE cps,
             requested, k + 1, tick_t, conc)

\* len(range(int(time/self.accuracy+1))), line 128.
NumIterations(tm) ==
    LET n == IntTrunc(tm + accuracy, accuracy) IN IF n < 0 THEN 0 ELSE n

\* ------------------------------------------------------------------ actions
\* __init__(accuracy), lines 36-37.
Init ==
    /\ accuracy \in StepSizes
    /\ fitted = FALSE
    /\ enviroment = NoEnviroment
    /\ heap = <<>>
    /\ concRef = 0
    /\ pc = "idle"
    /\ last = "init"
    /\ err = "none"
    /\ time = 0
    /\ checkpoint_time = <<>>
    /\ concentration_below_zero = "SetToZero"
    /\ t = 0
    /\ i = 0
    /\ iterations = 0
    /\ checkpoints = <<>>
    /\ ani = "none"
    /\ frame = 0
    /\ results = <<>>
    /\ ops = 0
    /\ conc0 = <<>>
    /\ trace = <<>>

\* fit(e) for an Enviroment e, lines 48-60: the tables are cached and the
\* concentrations are copied into a new list.
DoFit(e) ==
    /\ pc = "idle"
    /\ enviroment' = e
    /\ heap' = Append(heap, [j \in 1 .. Len(e.compounds_concentration) |->
                                R(e.compounds_concentration[j])])
    /\ concRef' = Len(heap) + 1
    /\ fitted' = TRUE
    /\ last' = "fit"
    /\ err' = "none"
    /\ ops' = ops + 1
    /\ UNCHANGED <<accuracy, pc, time, checkpoint_time, concentration_below_zero,
                   t, i, iterations, checkpoints, ani, frame, results, conc0, trace>>

\* fit(x) for an x that is no Enviroment, lines 50-51: ValueError, nothing is set.
FitRejected ==
    /\ pc = "idle"
    /\ ~fitted
    /\ last = "init"
    /\ last' = "fit"
    /\ err' = "ValueError"
    /\ ops' = ops + 1
    /\ UNCHANGED <<accuracy, fitted, enviroment, heap, concRef, pc, time,
                   checkpoint_time, concentration_below_zero, t, i, iterations,
                   checkpoints, ani, frame, results, conc0, trace>>

\* calculate(tm, requested, concentration_below_zero = policy) up to the loop,
\* lines 84-127.  The plot argument only draws and is left out.
DoCalculate(tm, requested, policy) ==
    /\ pc = "idle"
    /\ last' = "calculate"
    /\ ops' = ops + 1
    /\ IF ~fitted
       THEN /\ err' = "NameError"
            /\ UNCHANGED <<pc, time, checkpoint_time, concentration_below_zero, t, i,
                           iterations, checkpoints, conc0, trace>>
       ELSE /\ err' = "none"
            /\ pc' = "calc_loop"
            /\ time' = tm
            /\ checkpoint_time' = requested
            /\ concentration_below_zero' = policy
            /\ t' = 0
            /\ i' = 0
            /\ iterations' = NumIterations(tm)
            /\ checkpoints' = <<Header>>
            /\ conc0' = Conc
            /\ trace' = <<>>
    /\ UNCHANGED <<accuracy, fitted, enviroment, heap, concRef, ani, frame, results>>

\* One iteration of the loop of calculate, lines 128-151.
CalculateTick ==
    /\ pc = "calc_loop"
    /\ i < iterations
    /\ LET s == Step(Conc, concentration_below_zero)
       IN  /\ heap' = [heap EXCEPT ![concRef] = s.val]
           /\ err' = s.err
           /\ IF s.err # "none"
              THEN /\ pc' = "idle"
                   /\ UNCHANGED <<checkpoints, t, i, trace>>
              ELSE /\ pc' = pc
                   /\ checkpoints' = RecordFrom(checkpoints, checkpoint_time, 1, t, s.val)
                   /\ t' = t + accuracy
                   /\ i' = i + 1
                   /\ trace' = Append(trace, s.val)
    /\ UNCHANGED <<accuracy, fitted, enviroment, concRef, last, time, checkpoint_time,
                   concentration_below_zero, iterations, ani, frame, results, ops, conc0>>

\* The end of calculate, lines 167-170: the final pair holds self.concentrations
\* itself.
CalculateReturn ==
    /\ pc = "calc_loop"
    /\ i >= iterations
    /\ pc' = "idle"
    /\ results' = Append(results, Append(checkpoints, FinalPair(time, concRef)))
    /\ UNCHANGED <<accuracy, fitted, enviroment, heap, concRef, last, err, time,
                   checkpoint_time, concentration_below_zero, t, i, iterations,
                   checkpoints, ani, frame, ops, conc0, trace>>

\* calculate_responsively(requested, plot = plot, concentration_below_zero =
\* policy) up to the command loop, lines 189-266.  Without plot nothing is shown,
\* no frame is drawn and lines 279-280 return at once.
DoCalculateResponsively(requested, plot, policy) ==
    /\ pc = "idle"
    /\ last' = "calculate_responsively"
    /\ ops' = ops + 1
    /\ IF ~fitted
       THEN /\ err' = "NameError"
            /\ UNCHANGED <<pc, checkpoint_time, concentration_below_zero, i,
                           checkpoints, ani, frame, results, conc0, trace>>
       ELSE /\ err' = "none"
            /\ checkpoint_time' = requested
            /\ concentration_below_zero' = policy
            /\ i' = 0
            /\ frame' = 0
            /\ checkpoints' = <<Header>>
            /\ conc0' = Conc
            /\ trace' = <<>>
            /\ IF plot
               THEN /\ pc' = "resp_input"
                    /\ ani' = "running"
                    /\ UNCHANGED results
               ELSE /\ results' = Append(results, <<Header, EndPair(concRef)>>)
                    /\ UNCHANGED <<pc, ani>>
    /\ UNCHANGED <<accuracy, fitted, enviroment, heap, concRef, time, t, iterations>>

\* animate(i), lines 234-256: one call of the callback handed to FuncAnimation
\* at line 259.  When the timer of the FuncAnimation calls it is decided by
\* matplotlib, outside this source: a call may come at any point of the command
\* loop, whatever ani.pause() and ani.resume() were called before.
Animate ==
    /\ pc = "resp_input"
    /\ frame < MaxFrames
    /\ LET tick_t == accuracy * frame
           s == Step(Conc, concentration_below_zero)
       IN  /\ t' = tick_t
           /\ frame' = frame + 1
           /\ heap' = [heap EXCEPT ![concRef] = s.val]
           /\ err' = s.err
           /\ IF s.err # "none"
              THEN UNCHANGED <<checkpoints, i, trace>>
              ELSE /\ checkpoints' =
                          RecordFrom(checkpoints, checkpoint_time, 1, tick_t, s.val)
                   /\ i' = i + 1
                   /\ trace' = Append(trace, s.val)
    /\ UNCHANGED <<accuracy, fitted, enviroment, concRef, pc, last, time,
                   checkpoint_time, concentration_below_zero, iterations, ani,
                   results, ops, conc0>>

\* The command "stop", lines 273-274: ani.pause().
Stop ==
    /\ pc = "resp_input"
    /\ ani' = "paused"
    /\ UNCHANGED <<accuracy, fitted, enviroment, heap, concRef, pc, last, err, time,
                   checkpoint_time, concentration_below_zero, t, i, iterations,
                   checkpoints, frame, results, ops, conc0, trace>>

\* The command "resume", lines 275-276: ani.resume().
Resume ==
    /\ pc = "resp_input"
    /\ ani' = "running"
    /\ UNCHANGED <<accuracy, fitted, enviroment, heap, concRef, pc, last, err, time,
                   checkpoint_time, concentration_below_zero, t, i, iterations,
                   checkpoints, frame, results, ops, conc0, trace>>

\* The command "exit", lines 269-272 and 279-280: the sentinel pair holds
\* self.concentrations itself.
Exit ==
    /\ pc = "resp_input"
    /\ pc' = "idle"
    /\ ani' = "none"
    /\ results' = Append(results, Append(checkpoints, EndPair(concRef)))
    /\ UNCHANGED <<accuracy, fitted, enviroment, heap, concRef, last, err, time,
                   checkpoint_time, concentration_below_zero, t, i, iterations,
                   checkpoints, frame, ops, conc0, trace>>

\* --------------------------------------------------------- specifications
\* Spec: a new calculator, bound once, and its first run, over all the inputs.
Fit == ~fitted /\ \E e \in Enviroments : DoFit(e)

Calculate ==
    /\ last \in {"init", "fit"}
    /\ \E tm \in Durations, requested \in CheckpointLists, policy \in PolicyArgs :
           DoCalculate(tm, requested, policy)

CalculateResponsively ==
    /\ last \in {"init", "fit"}
    /\ \E requested \in ShortCheckpointLists, plot \in BOOLEAN, policy \in PolicyArgs :
           DoCalculateResponsively(requested, plot, policy)

Next ==
    \/ Fit
    \/ FitRejected
    \/ Calculate
    \/ CalculateTick
    \/ CalculateReturn
    \/ CalculateResponsively
    \/ Animate
    \/ Stop
    \/ Resume
    \/ Exit

Spec == Init /\ [][Next]_vars

\* SpecRerun: up to MaxOps operations in any order on one calculator (re-binding,
\* run after run), over fewer inputs.
RerunEnviroments == {NetNone(<<1, 0>>), NetAB(<<1, 0>>)}
RerunCheckpointLists == {<<>>, <<0>>}
RerunPolicies == {"SetToZero", "GoNegetive"}

Refit == ops < MaxOps /\ \E e \in RerunEnviroments : DoFit(e)

Recalculate ==
    /\ ops < MaxOps
    /\ \E requested \in RerunCheckpointLists, policy \in RerunPolicies :
           DoCalculate(1, requested, policy)

RecalculateResponsively ==
    /\ ops < MaxOps
    /\ \E requested \in RerunCheckpointLists, plot \in BOOLEAN, policy \in RerunPolicies :
           DoCalculateResponsively(requested, plot, policy)

NextRerun ==
    \/ Refit
    \/ Recalculate
    \/ CalculateTick
    \/ CalculateReturn
    \/ RecalculateResponsively
    \/ Animate
    \/ Stop
    \/ Resume
    \/ Exit

SpecRerun == Init /\ [][NextRerun]_vars

\* ------------------------------------------------------------------ claims
\* calculate has returned its list (the last of results).
Returned == pc = "idle" /\ last = "calculate" /\ err = "none" /\ fitted
Result == results[Len(results)]
\* The pairs of a returned list between its header and its last pair.
Recorded(r) == SubSeq(r, 2, Len(r) - 1)
\* The checkpoint pairs the running or finished call has recorded so far.
RecordedSoFar == Tail(checkpoints)
Occurrences(seq, x) == Cardinality({k \in 1 .. Len(seq) : seq[k] = x})
TimesOf(pairs) == [k \in 1 .. Len(pairs) |-> pairs[k].time]
AllNonNeg(conc) == \A j \in 1 .. Len(conc) : RNonNeg(conc[j])
InCalculate == fitted /\ last = "calculate" /\ err # "NameError"
\* A call over a positive duration from a vector without a negative entry.
OrdinaryRun == time >= 1 /\ AllNonNeg(conc0)
InRun ==
    /\ fitted
    /\ last \in {"calculate", "calculate_responsively"}
    /\ err # "NameError"

\* C1 (as stated): a calculate call of a bound calculator with an unrecognized
\* concentration_below_zero ends with ValueError, and self.concentrations is
\* then what it was when the call started (stated for the calls over a positive
\* duration from a vector without a negative entry).
C1_InvalidPolicyRejectedUntouched ==
    (/\ pc = "idle"
     /\ InCalculate
     /\ OrdinaryRun
     /\ concentration_below_zero \notin Policies)
        => (err = "ValueError" /\ Conc = conc0)

\* C2 (as stated): every checkpoint pair calculate records has its time c in
\* [0, time) (stated for the calls over a positive duration from a vector
\* without a negative entry).
C2_RecordedInsideDuration ==
    (InCalculate /\ OrdinaryRun) =>
        \A k \in 1 .. Len(RecordedSoFar) :
            0 <= RecordedSoFar[k].time /\ RecordedSoFar[k].time < time

\* C2 (amended): every checkpoint pair calculate records has its time c in
\* [0, n * accuracy), n = int(time/accuracy + 1) the number of ticks; the times
\* from time up to n * accuracy are inside it.
C2_RecordedInsideTicks ==
    InCalculate =>
        \A k \in 1 .. Len(RecordedSoFar) :
            /\ 0 <= RecordedSoFar[k].time
            /\ RecordedSoFar[k].time < NumIterations(time) * accuracy

\* A returned run that recorded a requested time >= time and left out a
\* requested negative time.
C2_Witness ==
    /\ Returned
    /\ \E k \in 1 .. Len(Recorded(Result)) : Recorded(Result)[k].time >= time
    /\ \E k \in 1 .. Len(checkpoint_time) : checkpoint_time[k] < 0

\* C3: in the list calculate returns, every requested time c with 0 <= c < time
\* is recorded once per request of it, each time with a list of its own that
\* equals self.concentrations right after the update of the tick number
\* floor(c / accuracy), the one tick with t <= c < t + accuracy.
C3_CheckpointRecordedOnce ==
    Returned =>
        \A k \in 1 .. Len(checkpoint_time) :
            LET c == checkpoint_time[k]
                pairs == Recorded(Result)
            IN  (0 <= c /\ c < time) =>
                    /\ Occurrences(TimesOf(pairs), c) = Occurrences(checkpoint_time, c)
                    /\ \A m \in 1 .. Len(pairs) :
                           pairs[m].time = c =>
                               /\ pairs[m].ref = 0
                               /\ pairs[m].snap = trace[(c \div accuracy) + 1]

\* A returned run with a requested time inside [0, time) whose snapshot differs
\* from the state the run ended in.
C3_Witness ==
    /\ Returned
    /\ \E m \in 1 .. Len(Recorded(Result)) :
           /\ Recorded(Result)[m].time < time
           /\ Recorded(Result)[m].snap # Conc
           /\ Recorded(Result)[m].snap # conc0

\* The requested times in the order the ticks k, k+1, ... bracket them: tick by
\* tick, and within a tick in the order of the request.
RECURSIVE ExpectedTimesFrom(_)
ExpectedTimesFrom(k) ==
    IF k >= NumIterations(time) THEN <<>>
    ELSE SelectSeq(checkpoint_time,
                   LAMBDA c : k * accuracy <= c /\ c < (k + 1) * accuracy)
             \o ExpectedTimesFrom(k + 1)

HeaderFirstFinalLast(r) ==
    /\ Len(r) >= 2
    /\ r[1] = Header
    /\ r[Len(r)] = FinalPair(time, concRef)
    /\ \A m \in 1 .. Len(Recorded(r)) : Recorded(r)[m].ref = 0

\* C4 (as stated): the returned list is the header, the checkpoint pairs in
\* ascending order of their time, and the final pair (time, concentrations)
\* (stated for the calls over a positive duration from a vector without a
\* negative entry).
C4_CheckpointsAscending ==
    (Returned /\ OrdinaryRun) =>
        /\ HeaderFirstFinalLast(Result)
        /\ \A a, b \in 1 .. Len(Recorded(Result)) :
               a < b => Recorded(Result)[a].time <= Recorded(Result)[b].time

\* C4 (amended): the returned list is the header, the checkpoint pairs in the
\* order their ticks were reached, those of one tick in the order they were
\* requested, and the final pair (time, concentrations).
C4_CheckpointsInTickOrder ==
    Returned =>
        /\ HeaderFirstFinalLast(Result)
        /\ TimesOf(Recorded(Result)) = ExpectedTimesFrom(0)

\* A returned run with two pairs of one tick in descending order of time.
C4_Witness ==
    /\ Returned
    /\ \E a, b \in 1 .. Len(Recorded(Result)) :
           a < b /\ Recorded(Result)[a].time > Recorded(Result)[b].time

\* What the caller reads in every pair of every list returned so far.
Snapshots ==
    [k \in 1 .. Len(results) |->
        [m \in 1 .. Len(results[k]) |-> Snapshot(results[k][m])]]

\* C5 (as stated): no step changes the list held in any pair of a list that
\* was returned before it.
C5_ReturnedSnapshotsFrozen ==
    [][\A k \in 1 .. Len(results) : Snapshots'[k] = Snapshots[k]]_vars

NoReactionRunSame ==
    /\ \A k \in 1 .. Len(RecordedSoFar) : RecordedSoFar[k].snap = conc0
    /\ Conc = conc0
    /\ Returned => Snapshot(Result[Len(Result)]) = conc0

\* C6 (as stated): with no reaction and a recognized policy, every checkpoint
\* pair and the final pair of calculate hold the vector the run started from.
C6_NoReactionUnchanged ==
    (InCalculate /\ number_of_reactions = 0 /\ concentration_below_zero \in Policies)
        => NoReactionRunSame

\* C6 (amended): the same under "DoNotChange" and "GoNegetive" for every start
\* vector, and under "SetToZero" for every start vector without a negative entry.
C6_NoReactionUnchangedNonNeg ==
    (/\ InCalculate
     /\ number_of_reactions = 0
     /\ concentration_below_zero \in Policies
     /\ (concentration_below_zero = "SetToZero" => AllNonNeg(conc0)))
        => NoReactionRunSame

\* A returned run without reaction under "DoNotChange" from a vector with a
\* negative entry, with a recorded checkpoint.
C6_Witness ==
    /\ Returned
    /\ number_of_reactions = 0
    /\ concentration_below_zero = "DoNotChange"
    /\ ~AllNonNeg(conc0)
    /\ i >= 2
    /\ Len(Recorded(Result)) >= 1

\* Every candidate of the tick that starts from conc is > 0.
AllCandidatesPositive(conc) ==
    LET d == calculate_concentration_change(conc)
    IN  /\ ~d.err
        /\ \A j \in 1 .. Len(conc) : RPos(RAdd(conc[j], d.val[j]))

\* C7: from any vector a run reaches, a tick whose candidates are all > 0 gives
\* the same vector, and no exception, under the three policies.
C7_PolicyEquivalence ==
    (fitted /\ AllCandidatesPositive(Conc)) =>
        \A p, q \in Policies : Step(Conc, p) = Step(Conc, q)

\* A run that has applied a tick and whose next tick changes the vector with
\* every candidate > 0, one of them from an entry that is not > 0.
C7_Witness ==
    /\ InRun
    /\ i >= 1
    /\ AllCandidatesPositive(Conc)
    /\ Step(Conc, "SetToZero").val # Conc
    /\ \E j \in 1 .. Len(Conc) : ~RPos(Conc[j])

\* Some compound of that side of the reaction has concentration 0 and a
\* negative exponent.
HasZeroNegative(rxn_index, side, conc) ==
    \E p \in 1 .. Len(enviroment.reaction_by_index[rxn_index][side]) :
        /\ conc[enviroment.reaction_by_index[rxn_index][side][p]] = Zero
        /\ enviroment.rate_dependency_by_reaction[rxn_index][side][p] < 0

\* C9: for every vector a run reaches, a side of a reaction with a compound of
\* concentration 0 and negative exponent has extent 0, whatever its position
\* and the other factors, and calculate_concentration_change raises nothing.
C9_ZeroGuard ==
    fitted =>
        /\ err # "ZeroDivisionError"
        /\ ~calculate_concentration_change(Conc).err
        /\ \A r \in 1 .. number_of_reactions : \A side \in {1, 2} :
               HasZeroNegative(r, side, Conc) =>
                   Extent(r, side, Conc) = [err |-> FALSE, val |-> Zero]

\* A run that applied ticks to a vector whose zero compound has a negative
\* exponent first on one side and last on the other, the other compound of both
\* sides being nonzero.
C9_Witness ==
    /\ InRun
    /\ i >= 2
    /\ \E r \in 1 .. number_of_reactions :
           LET idx == enviroment.reaction_by_index[r]
               dep == enviroment.rate_dependency_by_reaction[r]
           IN  /\ Len(idx[1]) = 2 /\ Len(idx[2]) = 2
               /\ Conc[idx[1][1]] = Zero /\ dep[1][1] < 0 /\ Conc[idx[1][2]] # Zero
               /\ Conc[idx[2][2]] = Zero /\ dep[2][2] < 0 /\ Conc[idx[2][1]] # Zero
               /\ conc0 # Conc

\* C10: after every tick of calculate or calculate_responsively every entry of
\* self.concentrations is >= 0 under "SetToZero", and under "DoNotChange" when
\* the run started from a vector without a negative entry.
C10_NonNegative ==
    (InRun /\ i >= 1) =>
        /\ concentration_below_zero = "SetToZero" => AllNonNeg(Conc)
        /\ (concentration_below_zero = "DoNotChange" /\ AllNonNeg(conc0))
               => AllNonNeg(Conc)

\* A "SetToZero" run that clamped a candidate that was not > 0 to 0 and started
\* from a vector with a negative entry.
C10_Witness ==
    /\ InRun
    /\ i >= 1
    /\ concentration_below_zero = "SetToZero"
    /\ \E j \in 1 .. Len(Conc) : ~RNonNeg(conc0[j]) /\ Conc[j] = Zero
    /\ \E j \in 1 .. Len(Conc) : RNonNeg(conc0[j]) /\ RPos(conc0[j]) /\ Conc[j] = Zero
====
